---- MODULE Spec2Model ----
(***************************************************************************)
(* A model of the radio data collection toolkit:                           *)
(*   - the IQ table operations (create_iq_array, process_iq_data in the    *)
(*     SignalProcessor class and in the toolkit's fallback, and the filter *)
(*     step of the iq_signal_processor script), specification SpecIq;      *)
(*   - the signal pipeline of the SignalProcessor of                       *)
(*     signal_processor_backup.py (process_signal, save_signal_data,       *)
(*     load_signal_data, analyze_signal), specification SpecSig;           *)
(*   - the ConfigHandler of config_handler.py, specification SpecCfg;      *)
(*   - run_continuous_acquisition of main.py, run on a SignalProcessor of  *)
(*     signal_processor_backup.py, specification SpecLoop;                 *)
(*   - run_single_acquisition of main.py, on the same class, specification *)
(*     SpecSingle;                                                         *)
(*   - the configuration mappings as Python objects with an identity, held *)
(*     by the handler, its callers and a SignalProcessor, specification    *)
(*     SpecRef.                                                            *)
(*                                                                         *)
(* Numbers.  Sample values are integers.  A float32 array element is the   *)
(* integer rounded to a 24 bit significand (ToFloat32).  A mean is kept as *)
(* the exact fraction sum/count and compared by cross multiplication.      *)
(***************************************************************************)
EXTENDS Integers, Sequences, FiniteSets, TLC

VARIABLES
    \* ---- IQ table operations
    iq_pc,          \* "start" | "created" | "raised" | "passed" | "main"
    iq_data_list,   \* the caller's iq_data_list argument (optional)
    sample_rate,    \* the caller's sample_rate argument (optional)
    heap,           \* the numpy arrays alive: name -> array
    sp_result,      \* what SignalProcessor.process_iq_data returned or raised
    tk_result,      \* what the toolkit's process_iq_data returned or raised
    main_result,    \* the locals of main() after its filter step
    \* ---- the signal pipeline
    sig_pc,         \* "idle" | "processed" | "saved" | "loaded"
    config,         \* SignalProcessor.config, the snapshot of the configuration
    np_allow_pickle,\* what np.load's allow_pickle defaults to in the numpy installed
    fs,             \* the files: path -> container (or no file)
    duration,       \* the duration argument of the last process_signal
    acq,            \* what _simulate_signal_acquisition returned
    pre,            \* the locals of the last _preprocess_signal
    signal_obj,     \* what process_signal returned
    save_call,      \* the last save_signal_data: its path and its result
    load_call,      \* the last load_signal_data: its path and its result
    analyze_call,   \* the last analyze_signal: its argument and its result
    \* ---- the configuration handler
    handler_config, \* ConfigHandler.config, the current mapping
    config_fs,      \* the configuration files: path -> content
    config_call,    \* the last ConfigHandler call: arguments, result, state before
    \* ---- run_continuous_acquisition
    loop_pc,        \* where the function is: "start" | "top" | "synthesizing" |
                    \*   "persisting" | "sleeping" | "finally" | "done"
    is_running,     \* SignalProcessor.is_running
    count,          \* the local count
    interval,       \* the argument interval, in seconds
    output_dir,     \* the argument output_dir
    iter_steps,     \* the steps the current iteration has completed
    stop_request,   \* the first request to stop: its kind and the count then
    loop_exit,      \* how the loop was left: from where and by what exception
    \* ---- run_single_acquisition
    single_pc,      \* where the function is: "start" | "synthesizing" |
                    \*   "persisting" | "analyzing" | "reporting" | "done"
    analyze,        \* the argument analyze
    single_steps,   \* the steps the function has completed, in order
    analysis_file,  \* the file analysis_{timestamp}.txt of the output directory
    single_exit,    \* how the function was left: by return or by what exception
    \* ---- the configuration mappings as objects
    dict_objects,   \* the dict objects alive: identity -> mapping
    refs,           \* who refers to which dict object
    mutation        \* the last assignment a caller made through a mapping it
                    \*   was handed, and what the others held before it

iqvars == <<iq_pc, iq_data_list, sample_rate, heap, sp_result, tk_result, main_result>>

sigvars == <<sig_pc, config, np_allow_pickle, fs, duration, acq, pre, signal_obj,
             save_call, load_call, analyze_call>>

cfgvars == <<handler_config, config_fs, config_call>>

loopvars == <<loop_pc, is_running, count, interval, output_dir, iter_steps,
              stop_request, loop_exit>>

singlevars == <<single_pc, analyze, single_steps, analysis_file, single_exit>>

refvars == <<dict_objects, refs, mutation>>

vars == <<iqvars, sigvars, cfgvars, loopvars, singlevars, refvars>>

----------------------------------------------------------------------------
(* Bounds of the model *)

\* the longest list of rows a caller passes
MaxRows == 3

\* the values a caller's I and Q samples take
Vals == {-2, 0, 1}

\* the sample rates a caller passes: the default 2.4e6 and one that float32
\* cannot hold
SampleRates == {2400000, 16777219}

\* the iterations of the continuous loop that are followed
MaxCount == 3

\* the values of time.time()
Timestamps == {1700000000}

----------------------------------------------------------------------------
(* Program constants *)

\* np.zeros((1000, 2)): the rows of the default table
DefaultRows == 1000

\* iq_array[:200]
FirstN == 200

\* float32 holds every integer of magnitude up to 2^24 exactly
Float32Exact == 16777216

----------------------------------------------------------------------------
(* Values *)

\* an optional argument: absent (Python's None) or given with a value
Absent == [given |-> FALSE, val |-> <<>>]
Given(v) == [given |-> TRUE, val |-> v]

NoArray == [shape |-> <<>>, rows |-> <<>>, tag |-> "none"]
NoResult == [tag |-> "none"]

Abs(x) == IF x < 0 THEN -x ELSE x

RECURSIVE Ulp(_, _)
\* the spacing of float32 values around magnitude m, starting from step
Ulp(m, step) == IF m < Float32Exact * step THEN step ELSE Ulp(m, 2 * step)

\* dtype=np.float32: round to nearest, ties to the even significand
ToFloat32(x) ==
    LET m == Abs(x)
        u == Ulp(m, 1)
        q == m \div u
        r == m % u
        up == \/ 2 * r > u
              \/ (2 * r = u /\ q % 2 = 1)
        v == IF up THEN (q + 1) * u ELSE q * u
    IN IF x < 0 THEN -v ELSE v

\* np.array(rows, dtype=np.float32): a table of the rows, each value converted;
\* an empty list gives a 1-dimensional array of shape (0,); rows of unequal
\* length cannot be converted
NpArray(rows) ==
    IF rows = <<>> THEN [shape |-> <<0>>, rows |-> <<>>, tag |-> "array"]
    ELSE IF \E k \in 1..Len(rows) : Len(rows[k]) # Len(rows[1])
    THEN [shape |-> <<>>, rows |-> <<>>, tag |-> "ValueError"]
    ELSE [shape |-> <<Len(rows), Len(rows[1])>>,
          rows |-> [k \in 1..Len(rows) |->
                      [c \in 1..Len(rows[k]) |-> ToFloat32(rows[k][c])]],
          tag |-> "array"]

\* np.zeros((n, 2), dtype=np.float32)
NpZeros(n) ==
    [shape |-> <<n, 2>>, rows |-> [k \in 1..n |-> <<0, 0>>], tag |-> "array"]

\* np.vstack([a, b]): both 2-dimensional with the same number of columns
NpVstack(a, b) ==
    IF Len(a.shape) = 2 /\ Len(b.shape) = 2 /\ a.shape[2] = b.shape[2]
    THEN [shape |-> <<a.shape[1] + b.shape[1], a.shape[2]>>,
          rows |-> a.rows \o b.rows, tag |-> "array"]
    ELSE [shape |-> <<>>, rows |-> <<>>, tag |-> "ValueError"]

\* create_iq_array with the columns of the annotation row exchanged
create_iq_array_swapped(list, rate) ==
    LET iq_array == IF ~list.given THEN NpZeros(DefaultRows) ELSE NpArray(list.val)
    IN IF iq_array.tag # "array" THEN iq_array
       ELSE IF rate.given
       THEN NpVstack(iq_array, NpArray(<< <<0, rate.val>> >>))
       ELSE iq_array

\* SignalProcessor.create_iq_array
create_iq_array(list, rate) ==
    LET iq_array == IF ~list.given THEN NpZeros(DefaultRows) ELSE NpArray(list.val)
    IN IF iq_array.tag # "array" THEN iq_array
       ELSE IF rate.given
       THEN NpVstack(iq_array, NpArray(<< <<rate.val, 0>> >>))
       ELSE iq_array

\* the toolkit's fallback create_iq_array
tk_create_iq_array(list, rate) ==
    LET iq_array == IF ~list.given THEN NpZeros(DefaultRows) ELSE NpArray(list.val)
    IN IF iq_array.tag # "array" THEN iq_array
       ELSE IF rate.given
       THEN NpVstack(iq_array, NpArray(<< <<rate.val, 0>> >>))
       ELSE iq_array

----------------------------------------------------------------------------
(* numpy helpers over a column (a sequence of numbers) *)

Min2(a, b) == IF a < b THEN a ELSE b

RECURSIVE SumRange(_, _, _)
\* col[lo] + ... + col[hi], halving the range
SumRange(col, lo, hi) ==
    IF lo > hi THEN 0
    ELSE IF lo = hi THEN col[lo]
    ELSE LET mid == (lo + hi) \div 2
         IN SumRange(col, lo, mid) + SumRange(col, mid + 1, hi)

NpSum(col) == SumRange(col, 1, Len(col))

NpSumSq(col) == SumRange([k \in 1..Len(col) |-> col[k] * col[k]], 1, Len(col))

\* np.mean: the fraction num/den; den = 0 is the nan of an empty column
NpMean(col) == [num |-> NpSum(col), den |-> Len(col)]

\* x > mean, false when the mean is nan
GtMean(x, mean) == mean.den > 0 /\ x * mean.den > mean.num

\* np.std, kept as its square: (n * sum(x^2) - sum(x)^2) / n^2
NpStd(col) ==
    [num |-> Len(col) * NpSumSq(col) - NpSum(col) * NpSum(col),
     den |-> Len(col) * Len(col)]

\* np.max and np.min of a non-empty column
NpMax(col) == CHOOSE x \in {col[k] : k \in 1..Len(col)} :
                  \A k \in 1..Len(col) : col[k] <= x
NpMin(col) == CHOOSE x \in {col[k] : k \in 1..Len(col)} :
                  \A k \in 1..Len(col) : col[k] >= x

\* A basic slice is a view: it names its base array, the rows it covers (the
\* first `rows` ones) and its column (0: both columns).
View(base, rows, col) == [base |-> base, rows |-> rows, col |-> col]

\* the values a view shows of the heap h
Deref(v, h) ==
    [k \in 1..v.rows |-> IF v.col = 0 THEN h[v.base].rows[k]
                         ELSE h[v.base].rows[k][v.col]]

\* np.where(col > mean, 0, col): a new array
NpWhereGtZero(col, mean) ==
    [k \in 1..Len(col) |-> IF GtMean(col[k], mean) THEN 0 ELSE col[k]]

----------------------------------------------------------------------------
(* SignalProcessor.process_iq_data *)

\* the annotation test: more than one row and the last row equal to [I, 0]
SpLastRowIsAnnotation(a) ==
    /\ a.shape[1] > 1
    /\ a.rows[a.shape[1]] = <<a.rows[a.shape[1]][1], 0>>

\* the rows the I and Q components are taken from
SpDataRows(a) == IF SpLastRowIsAnnotation(a) THEN a.shape[1] - 1 ELSE a.shape[1]

\* the filter with its comparison turned round: the values up to the mean
\* are set to 0
SpFilterInverted(i_components, i_mean) ==
    [k \in 1..Len(i_components) |->
       IF GtMean(i_components[k], i_mean) THEN i_components[k] ELSE 0]

\* the filter of process_iq_data: np.where builds filtered_i, the heap is
\* left as it was
SpFilter(i_components, i_mean) == NpWhereGtZero(i_components, i_mean)

process_iq_data(h) ==
    LET iq_array == h["iq_array"]
    IN IF Len(iq_array.shape) # 2 \/ iq_array.shape[2] # 2
       THEN [tag |-> "ValueError", at |-> "shape check"]
       ELSE
       LET first_200 == View("iq_array", Min2(FirstN, iq_array.shape[1]), 0)
           m == SpDataRows(iq_array)
           q_components == View("iq_array", m, 2)
           i_components == View("iq_array", m, 1)
           icol == Deref(i_components, h)
           qcol == Deref(q_components, h)
           i_mean == NpMean(icol)
       IN IF m = 0                     \* np.max of an empty column raises
          THEN [tag |-> "ValueError", at |-> "np.max(i_components)"]
          ELSE [tag |-> "ok",
                original_i |-> i_components,
                filtered_i |-> SpFilter(icol, i_mean),
                q_components |-> q_components,
                i_mean |-> i_mean,
                stats |-> [i_mean |-> i_mean, i_std |-> NpStd(icol),
                           q_mean |-> NpMean(qcol), q_std |-> NpStd(qcol),
                           i_max |-> NpMax(icol), i_min |-> NpMin(icol)],
                first_200_samples |-> first_200]

----------------------------------------------------------------------------
(* the toolkit's fallback process_iq_data *)

\* the rows kept: all but the last whenever there is more than one
TkDataRows(a) == IF a.shape[1] > 1 THEN a.shape[1] - 1 ELSE a.shape[1]

tk_process_iq_data(h) ==
    LET iq_array == h["iq_array"]
    IN IF Len(iq_array.shape) # 2 \/ iq_array.shape[2] < 2
       THEN [tag |-> "IndexError", at |-> "iq_array[:, 1]"]
       ELSE
       LET m == TkDataRows(iq_array)
           q_components == View("iq_array", m, 2)
           i_components == View("iq_array", m, 1)
           icol == Deref(i_components, h)
           i_mean == NpMean(icol)
       IN [tag |-> "ok",
           original_i |-> i_components,
           filtered_i |-> NpWhereGtZero(icol, i_mean),
           q_components |-> q_components,
           i_mean |-> i_mean]

----------------------------------------------------------------------------
(* the filter step of main() in iq_signal_processor.py *)

\* iq_array_filtered = iq_array: no copy, a second name for the same array
MainCopyAlias == "iq_array"

\* iq_array.copy(): the name of the array the copy lives in
MainCopyTarget == "iq_array_filtered"

\* iq_array_filtered[mask, 0] = 0 on the array a
MainMaskedAssign(a, mask) ==
    [a EXCEPT !.rows = [k \in 1..Len(a.rows) |->
                          IF mask[k] THEN <<0, a.rows[k][2]>> ELSE a.rows[k]]]

\* lines 91-103: the heap and the locals after the filter
MainFilterStep(h) ==
    LET iq_array == h["iq_array"]
        icol == [k \in 1..iq_array.shape[1] |-> iq_array.rows[k][1]]
        i_mean == NpMean(icol)
        target == MainCopyTarget
        h1 == [h EXCEPT ![target] = iq_array]
        mask == [k \in 1..h1[target].shape[1] |-> GtMean(h1[target].rows[k][1], i_mean)]
        count_filtered == Cardinality({k \in 1..Len(mask) : mask[k]})
    IN [heap |-> [h1 EXCEPT ![target] = MainMaskedAssign(h1[target], mask)],
        locals |-> [tag |-> "ok", i_mean |-> i_mean, mask |-> mask,
                    count_filtered |-> count_filtered,
                    iq_array_filtered |-> target]]

----------------------------------------------------------------------------
(* The signal pipeline of signal_processor_backup.py *)

\* A complex buffer.  Sample k is (vals[k][1] + j vals[k][2]) / (w * sqrt(m2)):
\* m2 is the squared magnitude the buffer was divided by, w the window length
\* it was averaged over; nan says that every sample is nan.
Signal(vals, w, m2, nan) == [vals |-> vals, w |-> w, m2 |-> m2, nan |-> nan]

NoSignal == [tag |-> "none"]
PyNone == [tag |-> "None"]

\* a duration is the fraction d[1] / d[2] of a second, d[2] > 0
\* int(x / den): truncation toward zero
IntTrunc(x, den) == IF x >= 0 THEN x \div den ELSE -((-x) \div den)

\* round(x / den), halves to the even neighbour
RoundNearest(x, den) ==
    LET q == x \div den
        r == x % den
    IN IF 2 * r > den \/ (2 * r = den /\ q % 2 = 1) THEN q + 1 ELSE q

\* num_samples = round(sample_rate * duration)
NumSamplesRounded(rate, d) == RoundNearest(rate * d[1], d[2])

\* num_samples = int(sample_rate * duration)
NumSamples(rate, d) == IntTrunc(rate * d[1], d[2])

\* the draws of np.random.normal stand in for the hardware: sample k of each
\* noise sequence ("zeros" is the silent source, every draw 0)
Noise(g, k) ==
    CASE g = "zeros" -> <<0, 0>>
      [] g = "ramp"  -> <<(k % 4) - 1, (k % 3) - 1>>
      [] OTHER       -> <<IF k % 2 = 1 THEN 2 ELSE -1, 0>>

\* _simulate_signal_acquisition: np.random.normal raises for a negative
\* size, which the except turns into None
_simulate_signal_acquisition(cfg, d, g) ==
    LET num_samples == NumSamples(cfg.sample_rate, d)
    IN IF num_samples < 0 THEN PyNone
       ELSE [tag |-> "ok",
             signal |-> Signal([k \in 1..num_samples |-> Noise(g, k)], 1, 1, FALSE)]

Mag2(v) == v[1] * v[1] + v[2] * v[2]

\* np.max(np.abs(signal)), squared, of a non-empty buffer
MaxMag2(signal) ==
    CHOOSE x \in {Mag2(signal.vals[k]) : k \in 1..Len(signal.vals)} :
        \A k \in 1..Len(signal.vals) : Mag2(signal.vals[k]) <= x

\* signal / np.max(np.abs(signal)): a maximum of 0 makes every sample 0/0,
\* which numpy computes as nan (with a warning, not an exception)
Normalize(signal) ==
    LET max2 == MaxMag2(signal)
    IN IF max2 = 0 THEN [signal EXCEPT !.nan = TRUE]
       ELSE [signal EXCEPT !.m2 = max2]

\* the cap of the smoothing window
WindowCap == 100

\* len(signal_normalized) // 10
WindowDivisor == 10

WindowSize(n) == Min2(WindowCap, n \div WindowDivisor)

\* sample j of a buffer padded with zeros on both sides
Padded(vals, j) == IF j >= 1 /\ j <= Len(vals) THEN vals[j] ELSE <<0, 0>>

RECURSIVE WindowSum(_, _, _, _)
\* component c of vals[hi] + vals[hi-1] + ... over `taps` samples
WindowSum(vals, hi, taps, c) ==
    IF taps = 0 THEN 0
    ELSE Padded(vals, hi)[c] + WindowSum(vals, hi - 1, taps - 1, c)

\* np.convolve(signal, np.ones(w) / w, mode='same'): the full convolution cut
\* to len(signal) samples, starting (w - 1) // 2 samples in
ConvolveSame(signal, w) ==
    [signal EXCEPT
       !.vals = [k \in 1..Len(signal.vals) |->
                   <<WindowSum(signal.vals, k + (w - 1) \div 2, w, 1),
                     WindowSum(signal.vals, k + (w - 1) \div 2, w, 2)>>],
       !.w = w]

\* _preprocess_signal, with its locals: np.max of an empty buffer raises, and
\* the except returns the buffer it was given
_preprocess_signal(signal) ==
    IF Len(signal.vals) = 0
    THEN [raised |-> TRUE, signal_normalized |-> signal, window_size |-> 0,
          result |-> signal]
    ELSE LET signal_normalized == Normalize(signal)
             window_size == WindowSize(Len(signal_normalized.vals))
             signal_filtered == IF window_size > 1
                                THEN ConvolveSame(signal_normalized, window_size)
                                ELSE signal_normalized
         IN [raised |-> FALSE, signal_normalized |-> signal_normalized,
             window_size |-> window_size, result |-> signal_filtered]

NoPre == [raised |-> FALSE, signal_normalized |-> Signal(<<>>, 1, 1, FALSE),
          window_size |-> 0, result |-> Signal(<<>>, 1, 1, FALSE)]

\* SignalData(...) of process_signal
SignalData(data, cfg, d, ts) ==
    [tag |-> "ok",
     data |-> data,
     sample_rate |-> cfg.sample_rate,
     center_freq |-> cfg.center_freq,
     timestamp |-> ts,
     metadata |-> [device_id |-> cfg.device_id, gain |-> cfg.gain,
                   duration |-> d, data_type |-> "complex64"]]

\* process_signal: None when the acquisition returned None, else the record
\* of whatever _preprocess_signal returned
process_signal(cfg, d, g, ts) ==
    LET signal_data == _simulate_signal_acquisition(cfg, d, g)
    IN IF signal_data.tag = "None"
       THEN [acq |-> signal_data, pre |-> NoPre, ret |-> PyNone]
       ELSE LET p == _preprocess_signal(signal_data.signal)
            IN [acq |-> signal_data, pre |-> p,
                ret |-> SignalData(p.result, cfg, d, ts)]

----------------------------------------------------------------------------
(* SignalProcessor.analyze_signal *)

\* the dict {}
EmptyDict == [empty |-> TRUE]

\* an fft that accepts every length
FftRaisesNever(n) == FALSE

\* np.fft.fft(data) raises ValueError for fewer than 1 data point
FftRaises(n) == n < 1

\* np.mean(np.abs(data) ** 2) as a fraction: sample k is vals[k] / (w sqrt(m2));
\* nan for an empty buffer (den = 0) and for a buffer of nan samples
Power(data) ==
    [num |-> NpSum([k \in 1..Len(data.vals) |-> Mag2(data.vals[k])]),
     den |-> Len(data.vals) * data.w * data.w * data.m2,
     nan |-> data.nan \/ Len(data.vals) = 0]

\* a float whose value is irrational in general: kept as the numpy
\* expression that computes it from signal_data
NpExpr(e) == [expr |-> e]

\* analyze_signal: the dict returned.  Reading .data of None raises, the fft
\* of an empty buffer raises, 1/sample_rate raises for a rate of 0; every
\* exception is caught and {} returned.
analyze_signal(signal_data) ==
    IF signal_data.tag # "ok" THEN EmptyDict
    ELSE LET data == signal_data.data
         IN IF FftRaises(Len(data.vals)) THEN EmptyDict
            ELSE IF signal_data.sample_rate = 0 THEN EmptyDict
            ELSE [power |-> Power(data),
                  amplitude |-> NpExpr("np.mean(np.abs(data))"),
                  main_frequency |-> NpExpr("freqs[np.argmax(spectrum)]"),
                  snr_estimate |->
                      NpExpr("10 * np.log10(power / (np.var(data) + 1e-10))"),
                  spectrum_peak |-> NpExpr("np.max(spectrum)"),
                  data_length |-> Len(data.vals)]

----------------------------------------------------------------------------
(* Persistence: np.savez_compressed and np.load *)

\* A path is <<stem, extension>>.
\* np.savez appends ".npz" to a file name that does not end with it
NpzName(path) == IF path[2] = ".npz" THEN path ELSE <<path[1], ".npz">>

\* f"{count:04d}" for the counts followed
Pad4(c) == "000" \o ToString(c)

\* the stem of output_dir / f"continuous_{count:04d}_{timestamp}.npz"
ContinuousStem(dir, c, ts) ==
    dir \o "/continuous_" \o Pad4(c) \o "_" \o ToString(ts)

\* the stem of output_dir / f"signal_{timestamp}.npz"
SingleStem(dir, ts) == dir \o "/signal_" \o ToString(ts)

\* the stem of output_dir / f"analysis_{timestamp}.txt"
AnalysisStem(dir, ts) == dir \o "/analysis_" \o ToString(ts)

\* the stems in the directory "ro", which cannot be written
ReadOnlyStems ==
    {"ro/sig"} \cup {ContinuousStem("ro", c, ts) : c \in 1..MaxCount, ts \in Timestamps}
               \cup {SingleStem("ro", ts) : ts \in Timestamps}
               \cup {AnalysisStem("ro", ts) : ts \in Timestamps}

\* the directory of this stem cannot be created or written
Unwritable(path) == path[1] \in ReadOnlyStems

\* A container is five named entries; an entry has a kind and a value:
\*   "ndarray"  a numeric array,      "float"   a 0-dimensional number,
\*   "object"   a pickled Python object (0-dimensional object array),
\*   "text"     a 0-dimensional string that is no number,
\*   "vector"   a numeric array of several elements,
\*   "missing"  no such entry.
Entry(kind, val) == [kind |-> kind, val |-> val]

NoFile == [tag |-> "absent"]

\* what np.savez_compressed writes for a record
Container(rec) ==
    [tag |-> "npz",
     data |-> Entry("ndarray", rec.data),
     sample_rate |-> Entry("float", rec.sample_rate),
     center_freq |-> Entry("float", rec.center_freq),
     timestamp |-> Entry("float", rec.timestamp),
     metadata |-> Entry("object", rec.metadata)]

\* save_signal_data: the files afterwards and the value returned
save_signal_data(files, rec, path) ==
    IF Unwritable(path) \/ rec.tag # "ok"
    THEN [fs |-> files, ret |-> FALSE]
    ELSE [fs |-> [files EXCEPT ![NpzName(path)] = Container(rec)], ret |-> TRUE]

\* data[key] of an open container raises for a missing entry and for an
\* object entry when pickles are not allowed
Readable(e, allow_pickle) ==
    /\ e.kind # "missing"
    /\ (e.kind = "object" => allow_pickle)

\* float(data[key]) taken to succeed on whatever can be read
FloatOkLenient(e, allow_pickle) == Readable(e, allow_pickle)

\* float(data[key]) succeeds on a 0-dimensional number
FloatOk(e, allow_pickle) == Readable(e, allow_pickle) /\ e.kind = "float"

\* data['metadata'].item() succeeds on an array of one element
ItemOk(e, allow_pickle) ==
    Readable(e, allow_pickle) /\ e.kind \in {"object", "float", "text"}

\* load_signal_data: the value returned; every exception is turned into None
load_signal_data(files, path, allow_pickle) ==
    LET data == files[path]
    IN IF data.tag = "absent" THEN PyNone
       ELSE IF ~Readable(data.data, allow_pickle) THEN PyNone
       ELSE IF ~FloatOk(data.sample_rate, allow_pickle) THEN PyNone
       ELSE IF ~FloatOk(data.center_freq, allow_pickle) THEN PyNone
       ELSE IF ~FloatOk(data.timestamp, allow_pickle) THEN PyNone
       ELSE IF data.metadata.kind # "missing" /\ ~ItemOk(data.metadata, allow_pickle)
       THEN PyNone
       ELSE [tag |-> "ok",
             data |-> data.data.val,
             sample_rate |-> data.sample_rate.val,
             center_freq |-> data.center_freq.val,
             timestamp |-> data.timestamp.val,
             metadata |-> IF data.metadata.kind # "missing"
                          THEN data.metadata.val
                          ELSE EmptyDict]

----------------------------------------------------------------------------
(* The inputs of the signal pipeline *)

\* DEFAULT_RADIO_CONFIG["sample_rate"] and ["center_freq"]
DefaultSampleRate == 2400000
DefaultCenterFreq == 98700000

\* the configuration snapshot the processor reads, with a given sample rate
DefaultConfig(rate) ==
    [center_freq |-> DefaultCenterFreq, sample_rate |-> rate,
     gain |-> "auto", device_id |-> "rtl-sdr-01"]

\* the sample rates configured: small ones, so that a buffer can be written out
CfgSampleRates == {3, 45}

\* the durations asked for, as fractions of a second
Durations == {<<-1, 1>>, <<0, 1>>, <<1, 4>>, <<1, 2>>, <<3, 4>>, <<1, 1>>}

\* the noise sequences drawn
NoiseModels == {"zeros", "ramp", "alt"}

\* the paths a caller passes
Paths == {<<"data/sig", "">>, <<"data/sig", ".npz">>, <<"old", ".npz">>,
          <<"ro/sig", ".npz">>}

Files == Paths \cup {NpzName(p) : p \in Paths}

\* a container that was not written by save_signal_data, entry by entry
ForeignPath == <<"old", ".npz">>

ForeignEntry(kind) ==
    CASE kind = "ndarray" -> Entry(kind, Signal(<< <<1, 0>>, <<0, 1>> >>, 1, 1, FALSE))
      [] kind = "float"   -> Entry(kind, 7)
      [] kind = "object"  -> Entry(kind, [device_id |-> "old"])
      [] kind = "text"    -> Entry(kind, "abc")
      [] kind = "vector"  -> Entry(kind, <<1, 2>>)
      [] OTHER            -> Entry("missing", 0)

ForeignContainer(dk, sk, ck, tk, mk) ==
    [tag |-> "npz",
     data |-> ForeignEntry(dk),
     sample_rate |-> ForeignEntry(sk),
     center_freq |-> ForeignEntry(ck),
     timestamp |-> ForeignEntry(tk),
     metadata |-> ForeignEntry(mk)]

DataKinds == {"ndarray", "missing", "text"}
ScalarKinds == {"float", "missing", "text"}
MetadataKinds == {"object", "missing", "vector", "float"}

NoCall == [tag |-> "none"]

----------------------------------------------------------------------------
(* ConfigHandler of config_handler.py *)

\* The values of a configuration mapping, by Python type
Num(n) == [kind |-> "number", num |-> n]
Str(t) == [kind |-> "str", str |-> t]
Nan == [kind |-> "nan"]                   \* float('nan')
PyTuple(t) == [kind |-> "tuple", items |-> t]
PyList(t) == [kind |-> "list", items |-> t]
PySet == [kind |-> "set"]                 \* a value json cannot serialise

\* the mapping {}
EmptyMapping == [k \in {} |-> Nan]

DEFAULT_RADIO_CONFIG ==
    [center_freq |-> Num(DefaultCenterFreq),
     sample_rate |-> Num(DefaultSampleRate),
     gain |-> Str("auto"),
     device_id |-> Str("rtl-sdr-01"),
     bandwidth |-> Num(DefaultSampleRate),
     antenna |-> Str("auto"),
     output_format |-> Str("complex64")]

\* dict.copy()
Copy(d) == d

required_keys == {"center_freq", "sample_rate", "gain", "device_id"}

\* isinstance(v, (int, float)) and not v <= 0; nan <= 0 is False
IsNumberNotLeZero(v) ==
    /\ v.kind \in {"number", "nan"}
    /\ ~(v.kind = "number" /\ v.num <= 0)

\* ConfigHandler._validate_config
_validate_config(c) ==
    /\ required_keys \subseteq DOMAIN c
    /\ IsNumberNotLeZero(c.center_freq)
    /\ IsNumberNotLeZero(c.sample_rate)

\* file_path or self.config_file: None and '' give the handler's file
TargetFile(config_file, file_path) ==
    IF file_path.given /\ file_path.val # "" THEN file_path.val ELSE config_file

\* config_dict or self.config: None and {} give the handler's mapping
ConfigToSave(self_config, config_dict) ==
    IF config_dict.given /\ DOMAIN config_dict.val # {} THEN config_dict.val
    ELSE self_config

\* The content of a file: none, a JSON document, or text that is no JSON
NoConfigFile == [tag |-> "absent"]
CorruptFile == [tag |-> "corrupt"]
JsonFile(isdict, doc) == [tag |-> "json", isdict |-> isdict, doc |-> doc]

\* json.dump raises TypeError for a value it cannot serialise
Serialisable(c) == \A k \in DOMAIN c : c[k].kind # "set"

\* the JSON document json.dump writes for a mapping: a tuple becomes an array
JsonDump(c) ==
    [k \in DOMAIN c |-> IF c[k].kind = "tuple" THEN PyList(c[k].items) ELSE c[k]]

\* the mapping json.load builds from a document: an array becomes a list
JsonLoad(doc) == doc

\* open(target_file, "w") raises for this path
ConfigUnwritable(path) == path = "ro/radio_config.json"

\* save_config: the files afterwards and the value returned.  open(.., "w")
\* empties the file before json.dump writes, so a dump that raises leaves
\* text that is no JSON.
save_config(self_config, files, config_file, config_dict, file_path) ==
    LET target_file == TargetFile(config_file, file_path)
        config_to_save == ConfigToSave(self_config, config_dict)
    IN IF ~_validate_config(config_to_save) THEN [fs |-> files, ret |-> FALSE]
       ELSE IF ConfigUnwritable(target_file) THEN [fs |-> files, ret |-> FALSE]
       ELSE IF ~Serialisable(config_to_save)
       THEN [fs |-> [files EXCEPT ![target_file] = CorruptFile], ret |-> FALSE]
       ELSE [fs |-> [files EXCEPT ![target_file] = JsonFile(TRUE, JsonDump(config_to_save))],
             ret |-> TRUE]

\* self.config after a load that kept the old mapping
LoadedConfigKept(old, loaded) == old

\* self.config = config
LoadedConfig(old, loaded) == loaded

\* load_config: self.config afterwards, the mapping returned, and whether
\* the object returned is the one bound to self.config (`self.config = config`
\* then `return config`) or a new one (`DEFAULT_RADIO_CONFIG.copy()`)
load_config(self_config, files, config_file, file_path) ==
    LET target_file == TargetFile(config_file, file_path)
        content == files[target_file]
        default == [config |-> self_config, ret |-> Copy(DEFAULT_RADIO_CONFIG),
                    same_object |-> FALSE]
    IN IF content.tag = "absent" THEN default
       ELSE IF content.tag = "corrupt" THEN default     \* json.load raises
       ELSE IF ~content.isdict THEN default             \* no key is in a list
       ELSE LET loaded == JsonLoad(content.doc)
            IN IF ~_validate_config(loaded) THEN default
               ELSE [config |-> LoadedConfig(self_config, loaded), ret |-> loaded,
                     same_object |-> TRUE]

\* update_config(**kwargs): the keys the mapping has are assigned, the others
\* skipped; True is returned
update_config(self_config, kwargs) ==
    [config |-> [k \in DOMAIN self_config |->
                   IF k \in DOMAIN kwargs THEN kwargs[k] ELSE self_config[k]],
     ret |-> TRUE]

\* get_config
get_config(self_config) == Copy(self_config)

\* ConfigHandler(): the handler's file when none is given
DefaultConfigFile == "radio_config.json"

ConfigFiles == {DefaultConfigFile, "ro/radio_config.json"}

\* the handler before any call, with no file
CfgQuiet ==
    /\ handler_config = Copy(DEFAULT_RADIO_CONFIG)
    /\ config_fs = [f \in ConfigFiles |-> NoConfigFile]
    /\ config_call = NoCall

----------------------------------------------------------------------------
(* The configuration mappings as Python objects.  A dict is an object with *)
(* an identity; a name refers to an object, two names may refer to the     *)
(* same one, and an assignment d[key] = value changes the object for every *)
(* name that refers to it.                                                 *)

\* the names that refer to a configuration mapping: the module's default,
\* the handler's attribute, the mapping a caller was handed last, and the
\* attribute of a SignalProcessor
RefNames == {"DEFAULT_RADIO_CONFIG", "self.config", "returned", "processor.config"}

\* identities: one more than there are names, so that a new object can be
\* made while every name refers to one
ObjectIds == 1..(Cardinality(RefNames) + 1)

\* a name that refers to nothing yet, an identity with no object
NoRef == 0
NoObject == [tag |-> "no object"]

\* the identities some name refers to
Referenced(rf) == {rf[n] : n \in RefNames}

\* the identity of an object made now: one that no name refers to
NewId(rf) ==
    CHOOSE id \in ObjectIds \ Referenced(rf) :
        \A other \in ObjectIds \ Referenced(rf) : id <= other

\* objects no name refers to any more are collected
Collect(objs, rf) ==
    [id \in ObjectIds |-> IF id \in Referenced(rf) THEN objs[id] ELSE NoObject]

\* name = <a new dict holding mapping>
BindNew(objs, rf, name, mapping) ==
    LET id == NewId(rf)
        rf2 == [rf EXCEPT ![name] = id]
    IN [objects |-> Collect([objs EXCEPT ![id] = mapping], rf2), refs |-> rf2]

\* d[key] = value on a dict
SetItem(d, key, value) ==
    [k \in DOMAIN d \cup {key} |-> IF k = key THEN value ELSE d[k]]

\* what a name refers to
Target(objs, rf, name) == objs[rf[name]]

\* nothing assigned by a caller
NoMutation == [tag |-> "none"]

\* the module imported and a handler constructed:
\* self.config = DEFAULT_RADIO_CONFIG.copy()
RefQuiet ==
    /\ dict_objects = [id \in ObjectIds |->
                         IF id = 1 THEN DEFAULT_RADIO_CONFIG
                         ELSE IF id = 2 THEN Copy(DEFAULT_RADIO_CONFIG)
                         ELSE NoObject]
    /\ refs = [n \in RefNames |->
                 IF n = "DEFAULT_RADIO_CONFIG" THEN 1
                 ELSE IF n = "self.config" THEN 2
                 ELSE NoRef]
    /\ mutation = NoMutation

----------------------------------------------------------------------------
(* run_continuous_acquisition of main.py, on a SignalProcessor of          *)
(* signal_processor_backup.py                                              *)

\* nothing asked, nothing left
NoStop == [kind |-> "none"]
NoExit == [from |-> "none", cause |-> "none"]

\* `if signal_data:` taken for every value
PersistAlways(signal_data) == TRUE

\* `if signal_data:`: None is falsy, a SignalData object is truthy
PersistWanted(signal_data) == signal_data.tag = "ok"

\* what an interrupted np.savez_compressed leaves
PartialFile == [tag |-> "partial"]

\* the function before it is called
LoopQuiet ==
    /\ loop_pc = "start"
    /\ is_running = FALSE
    /\ count = 0
    /\ interval = 5
    /\ output_dir = "data"
    /\ iter_steps = <<>>
    /\ stop_request = NoStop
    /\ loop_exit = NoExit

----------------------------------------------------------------------------
(* run_single_acquisition of main.py, on a SignalProcessor of              *)
(* signal_processor_backup.py                                              *)

\* `if analysis_result:` taken for every value
ReportAlways(analysis_result) == TRUE

\* `if analysis_result:`: the dict {} is falsy, a dict with keys is truthy
ReportWanted(analysis_result) == DOMAIN analysis_result # DOMAIN EmptyDict

\* no file analysis_{timestamp}.txt
NoReport == [tag |-> "absent"]

\* what an interrupted write leaves of the file opened with 'w'
PartialReport == [tag |-> "partial"]

\* the file the with block writes: the header lines, then one line per key
Report(timestamp, signal_data, analysis_result) ==
    [tag |-> "report",
     timestamp |-> timestamp,
     center_freq |-> signal_data.center_freq,
     sample_rate |-> signal_data.sample_rate,
     data_length |-> Len(signal_data.data.vals),
     lines |-> analysis_result]

\* the function before it is called
SingleQuiet ==
    /\ single_pc = "start"
    /\ analyze = FALSE
    /\ single_steps = <<>>
    /\ analysis_file = NoReport
    /\ single_exit = NoExit

----------------------------------------------------------------------------
(* The IQ state machine *)

\* the lists of [I, Q] pairs with at most MaxRows rows
RECURSIVE RowLists(_)
RowLists(n) ==
    IF n = 0 THEN {<<>>}
    ELSE LET shorter == RowLists(n - 1)
         IN shorter \cup {Append(l, <<i, q>>) :
                            l \in {x \in shorter : Len(x) = n - 1},
                            i \in Vals, q \in Vals}

PairLists == RowLists(MaxRows)

\* lists with a row that is not a pair: too long, too short, ragged
MalformedLists ==
    { << <<1, 0, -2>> >>,
      << <<1, 0, -2>>, <<0, 0, 1>> >>,
      << <<1>>, <<0>> >>,
      << <<1, 0>>, <<1>> >>,
      << <<1, 0>>, <<0, 1, 1>> >> }

IqLists == {Absent} \cup {Given(l) : l \in PairLists \cup MalformedLists}

\* the tables a caller hands to process_iq_data without create_iq_array:
\* np.zeros((0, 2)), a table with no row
PassedTable == NpZeros(0)
IqRates == {Absent} \cup {Given(r) : r \in SampleRates}

EmptyHeap == [n \in {"iq_array", "iq_array_filtered"} |-> NoArray]

\* the signal pipeline before any call, with the default configuration
SigQuiet ==
    /\ sig_pc = "idle"
    /\ config = DefaultConfig(DefaultSampleRate)
    /\ np_allow_pickle = FALSE
    /\ fs = [p \in Files |-> NoFile]
    /\ duration = <<0, 1>>
    /\ acq = NoSignal
    /\ pre = NoPre
    /\ signal_obj = NoSignal
    /\ save_call = NoCall
    /\ load_call = NoCall
    /\ analyze_call = NoCall

IqInit ==
    /\ SigQuiet
    /\ CfgQuiet
    /\ LoopQuiet
    /\ SingleQuiet
    /\ RefQuiet
    /\ iq_pc = "start"
    /\ iq_data_list = Absent
    /\ sample_rate = Absent
    /\ heap = EmptyHeap
    /\ sp_result = NoResult
    /\ tk_result = NoResult
    /\ main_result = NoResult

\* a caller builds a table with SignalProcessor.create_iq_array; a call that
\* raises leaves no table
SpCreateIqArray ==
    /\ iq_pc = "start"
    /\ \E list \in IqLists, rate \in IqRates :
         LET a == create_iq_array(list, rate)
         IN /\ iq_data_list' = list
            /\ sample_rate' = rate
            /\ iq_pc' = IF a.tag = "array" THEN "created" ELSE "raised"
            /\ heap' = IF a.tag = "array" THEN [heap EXCEPT !["iq_array"] = a]
                       ELSE heap
    /\ UNCHANGED <<sp_result, tk_result, main_result>>
    /\ UNCHANGED <<sigvars, cfgvars, loopvars, singlevars, refvars>>

\* a caller builds a table with the toolkit's create_iq_array
TkCreateIqArray ==
    /\ iq_pc = "start"
    /\ \E list \in IqLists, rate \in IqRates :
         LET a == tk_create_iq_array(list, rate)
         IN /\ iq_data_list' = list
            /\ sample_rate' = rate
            /\ iq_pc' = IF a.tag = "array" THEN "created" ELSE "raised"
            /\ heap' = IF a.tag = "array" THEN [heap EXCEPT !["iq_array"] = a]
                       ELSE heap
    /\ UNCHANGED <<sp_result, tk_result, main_result>>
    /\ UNCHANGED <<sigvars, cfgvars, loopvars, singlevars, refvars>>

\* a caller has a table of its own, with no row
PassTable ==
    /\ iq_pc = "start"
    /\ heap' = [heap EXCEPT !["iq_array"] = PassedTable]
    /\ iq_pc' = "passed"
    /\ UNCHANGED <<iq_data_list, sample_rate, sp_result, tk_result, main_result>>
    /\ UNCHANGED <<sigvars, cfgvars, loopvars, singlevars, refvars>>

\* SignalProcessor.process_iq_data(iq_array)
SpProcessIqData ==
    /\ iq_pc \in {"created", "passed"}
    /\ sp_result' = process_iq_data(heap)
    /\ UNCHANGED <<iq_pc, iq_data_list, sample_rate, heap, tk_result, main_result>>
    /\ UNCHANGED <<sigvars, cfgvars, loopvars, singlevars, refvars>>

\* the toolkit's process_iq_data(iq_array)
TkProcessIqData ==
    /\ iq_pc \in {"created", "passed"}
    /\ tk_result' = tk_process_iq_data(heap)
    /\ UNCHANGED <<iq_pc, iq_data_list, sample_rate, heap, sp_result, main_result>>
    /\ UNCHANGED <<sigvars, cfgvars, loopvars, singlevars, refvars>>

\* main() of iq_signal_processor.py: the table is np.array(iq_list) of the
\* collected samples, then the filter step
MainFilter ==
    /\ iq_pc = "start"
    /\ \E pairs \in PairLists :
         /\ pairs # <<>>
         /\ LET a == NpArray(pairs)
                r == MainFilterStep([heap EXCEPT !["iq_array"] = a])
            IN /\ iq_data_list' = Given(pairs)
               /\ heap' = r.heap
               /\ main_result' = r.locals
    /\ iq_pc' = "main"
    /\ UNCHANGED <<sample_rate, sp_result, tk_result>>
    /\ UNCHANGED <<sigvars, cfgvars, loopvars, singlevars, refvars>>

IqNext ==
    \/ SpCreateIqArray
    \/ TkCreateIqArray
    \/ PassTable
    \/ SpProcessIqData
    \/ TkProcessIqData
    \/ MainFilter

SpecIq == IqInit /\ [][IqNext]_vars

----------------------------------------------------------------------------
(* The signal state machine: a caller processes, saves and loads, as the   *)
(* test test_save_and_load_signal_data and run_single_acquisition do.      *)

\* the IQ tables before any call
IqQuiet ==
    /\ iq_pc = "start"
    /\ iq_data_list = Absent
    /\ sample_rate = Absent
    /\ heap = EmptyHeap
    /\ sp_result = NoResult
    /\ tk_result = NoResult
    /\ main_result = NoResult

\* The processor is constructed on a configuration; the numpy installed
\* fixes np.load's default for allow_pickle (False from numpy 1.16.3 on, True
\* before); the directory may hold a container some other program wrote.
SigInit ==
    /\ IqQuiet
    /\ CfgQuiet
    /\ LoopQuiet
    /\ SingleQuiet
    /\ RefQuiet
    /\ sig_pc = "idle"
    /\ \E rate \in CfgSampleRates : config = DefaultConfig(rate)
    /\ np_allow_pickle \in BOOLEAN
    /\ \/ fs = [p \in Files |-> NoFile]
       \/ \E dk \in DataKinds, sk \in ScalarKinds, ck \in ScalarKinds,
             tk \in ScalarKinds, mk \in MetadataKinds :
            fs = [p \in Files |-> IF p = ForeignPath
                                  THEN ForeignContainer(dk, sk, ck, tk, mk)
                                  ELSE NoFile]
    /\ duration = <<0, 1>>
    /\ acq = NoSignal
    /\ pre = NoPre
    /\ signal_obj = NoSignal
    /\ save_call = NoCall
    /\ load_call = NoCall
    /\ analyze_call = NoCall

\* processor.process_signal(duration)
ProcessSignal ==
    /\ sig_pc = "idle"
    /\ \E d \in Durations, g \in NoiseModels, ts \in Timestamps :
         LET r == process_signal(config, d, g, ts)
         IN /\ duration' = d
            /\ acq' = r.acq
            /\ pre' = r.pre
            /\ signal_obj' = r.ret
    /\ sig_pc' = "processed"
    /\ UNCHANGED <<config, np_allow_pickle, fs, save_call, load_call, analyze_call>>
    /\ UNCHANGED <<iqvars, cfgvars, loopvars, singlevars, refvars>>

\* processor.save_signal_data(signal_data, file_path), called with the record
\* process_signal returned
SaveSignalData ==
    /\ sig_pc = "processed"
    /\ signal_obj.tag = "ok"
    /\ \E path \in Paths :
         LET r == save_signal_data(fs, signal_obj, path)
         IN /\ fs' = r.fs
            /\ save_call' = [tag |-> "save", path |-> path, ret |-> r.ret]
    /\ sig_pc' = "saved"
    /\ UNCHANGED <<config, np_allow_pickle, duration, acq, pre, signal_obj, load_call,
                   analyze_call>>
    /\ UNCHANGED <<iqvars, cfgvars, loopvars, singlevars, refvars>>

\* processor.load_signal_data(file_path)
LoadSignalData ==
    /\ sig_pc \in {"idle", "saved"}
    /\ \E path \in Paths :
         load_call' = [tag |-> "load", path |-> path,
                       ret |-> load_signal_data(fs, path, np_allow_pickle)]
    /\ sig_pc' = "loaded"
    /\ UNCHANGED <<config, np_allow_pickle, fs, duration, acq, pre, signal_obj, save_call,
                   analyze_call>>
    /\ UNCHANGED <<iqvars, cfgvars, loopvars, singlevars, refvars>>

\* processor.analyze_signal(signal_data), called with whatever process_signal
\* returned, before or after the save
AnalyzeSignal ==
    /\ sig_pc \in {"processed", "saved"}
    /\ analyze_call' = [tag |-> "analyze", arg |-> signal_obj,
                        ret |-> analyze_signal(signal_obj)]
    /\ sig_pc' = "analyzed"
    /\ UNCHANGED <<config, np_allow_pickle, fs, duration, acq, pre, signal_obj, save_call,
                   load_call>>
    /\ UNCHANGED <<iqvars, cfgvars, loopvars, singlevars, refvars>>

SigNext ==
    \/ ProcessSignal
    \/ SaveSignalData
    \/ LoadSignalData
    \/ AnalyzeSignal

SpecSig == SigInit /\ [][SigNext]_vars

----------------------------------------------------------------------------
(* The configuration state machine: a caller saves, loads, updates and     *)
(* reads the configuration of one handler, in any order.                   *)

\* the mapping of test_save_and_load_config
TestConfig ==
    [center_freq |-> Num(100000000), sample_rate |-> Num(1000000),
     gain |-> Str("manual"), device_id |-> Str("test-device")]

\* the mappings with the four required keys: that one, and that one with
\* another center_freq, sample_rate or gain
FullMappings ==
    {TestConfig} \cup
    {[TestConfig EXCEPT !.center_freq = f] : f \in {Num(-100), Nan}} \cup
    {[TestConfig EXCEPT !.sample_rate = r] : r \in {Str("fast")}} \cup
    {[TestConfig EXCEPT !.gain = g] : g \in {PyTuple(<<0, 50>>), PySet}}

\* the mappings that lack one required key
PartialMappings ==
    {[k \in required_keys \ {m} |-> TestConfig[k]] : m \in required_keys}

\* the config_dict arguments of save_config
SaveDicts ==
    {Absent} \cup {Given(c) : c \in FullMappings \cup PartialMappings \cup {EmptyMapping}}

\* the file_path arguments of save_config and load_config
ConfigPaths == {Absent, Given(""), Given("ro/radio_config.json")}

\* the keyword arguments of update_config
UpdateKwargs ==
    {[sample_rate |-> Num(-1)], [sample_rate |-> Num(1000000)],
     [gain |-> Str("manual")], [mode |-> Str("fm")]}

\* what the handler's file may hold before the handler is made
ForeignConfigFiles ==
    {NoConfigFile, CorruptFile, JsonFile(FALSE, PyList(<<1, 2>>)),
     JsonFile(TRUE, [k \in required_keys \ {"gain"} |-> TestConfig[k]]),
     JsonFile(TRUE, TestConfig)}

CfgInit ==
    /\ IqQuiet
    /\ SigQuiet
    /\ LoopQuiet
    /\ SingleQuiet
    /\ RefQuiet
    /\ handler_config = Copy(DEFAULT_RADIO_CONFIG)
    /\ \E content \in ForeignConfigFiles :
         config_fs = [f \in ConfigFiles |-> IF f = DefaultConfigFile THEN content
                                            ELSE NoConfigFile]
    /\ config_call = NoCall

\* what a later call keeps of the call before it
Summary(call) ==
    IF call.tag = "save"
    THEN [tag |-> "save", config_dict |-> call.config_dict,
          file_path |-> call.file_path, ret |-> call.ret]
    ELSE [tag |-> call.tag]

\* handler.save_config(config_dict, file_path)
SaveConfig ==
    /\ \E config_dict \in SaveDicts, file_path \in ConfigPaths :
         LET r == save_config(handler_config, config_fs, DefaultConfigFile,
                              config_dict, file_path)
         IN /\ config_fs' = r.fs
            /\ config_call' = [tag |-> "save", config_dict |-> config_dict,
                               file_path |-> file_path, ret |-> r.ret,
                               fs_before |-> config_fs,
                               config_before |-> handler_config]
    /\ UNCHANGED handler_config
    /\ UNCHANGED <<iqvars, sigvars, loopvars, singlevars, refvars>>

\* handler.load_config(file_path)
LoadConfig ==
    /\ \E file_path \in ConfigPaths :
         LET r == load_config(handler_config, config_fs, DefaultConfigFile, file_path)
         IN /\ handler_config' = r.config
            /\ config_call' = [tag |-> "load", file_path |-> file_path, ret |-> r.ret,
                               prev |-> Summary(config_call)]
    /\ UNCHANGED config_fs
    /\ UNCHANGED <<iqvars, sigvars, loopvars, singlevars, refvars>>

\* handler.update_config(**kwargs)
UpdateConfig ==
    /\ \E kwargs \in UpdateKwargs :
         LET r == update_config(handler_config, kwargs)
         IN /\ handler_config' = r.config
            /\ config_call' = [tag |-> "update", kwargs |-> kwargs, ret |-> r.ret]
    /\ UNCHANGED config_fs
    /\ UNCHANGED <<iqvars, sigvars, loopvars, singlevars, refvars>>

\* handler.get_config()
GetConfig ==
    /\ config_call' = [tag |-> "get", ret |-> get_config(handler_config)]
    /\ UNCHANGED <<handler_config, config_fs>>
    /\ UNCHANGED <<iqvars, sigvars, loopvars, singlevars, refvars>>

CfgNext ==
    \/ SaveConfig
    \/ LoadConfig
    \/ UpdateConfig
    \/ GetConfig

SpecCfg == CfgInit /\ [][CfgNext]_vars

----------------------------------------------------------------------------
(* The continuous acquisition state machine: run_continuous_acquisition    *)
(* step by step, a user who may interrupt it (KeyboardInterrupt is raised   *)
(* wherever the main thread is), and another caller of                     *)
(* stop_continuous_acquisition.                                            *)

\* the sample rates configured: one that gives a buffer and one for which
\* the acquisition fails
LoopSampleRates == {3, -3}

\* the interval argument: the default and one time.sleep refuses
Intervals == {5, -1}

OutputDirs == {"data", "ro"}

LoopFiles ==
    {<<ContinuousStem(dir, c, ts), ".npz">> :
        dir \in OutputDirs, c \in 1..MaxCount, ts \in Timestamps}

LoopInit ==
    /\ IqQuiet
    /\ CfgQuiet
    /\ SingleQuiet
    /\ RefQuiet
    /\ sig_pc = "idle"
    /\ \E rate \in LoopSampleRates : config = DefaultConfig(rate)
    /\ np_allow_pickle = FALSE
    /\ fs = [p \in LoopFiles |-> NoFile]
    /\ duration = <<0, 1>>
    /\ acq = NoSignal
    /\ pre = NoPre
    /\ signal_obj = NoSignal
    /\ save_call = NoCall
    /\ load_call = NoCall
    /\ analyze_call = NoCall
    /\ loop_pc = "start"
    /\ is_running = FALSE
    /\ count = 0
    /\ interval \in Intervals
    /\ output_dir \in OutputDirs
    /\ iter_steps = <<>>
    /\ stop_request = NoStop
    /\ loop_exit = NoExit

\* the path of this iteration's file
LoopPath == <<ContinuousStem(output_dir, count, signal_obj.timestamp), ".npz">>

\* processor.start_continuous_acquisition(str(output_dir)); count = 0
LoopStart ==
    /\ loop_pc = "start"
    /\ is_running' = TRUE
    /\ count' = 0
    /\ loop_pc' = "top"
    /\ UNCHANGED <<interval, output_dir, iter_steps, stop_request, loop_exit>>
    /\ UNCHANGED <<iqvars, sigvars, cfgvars, singlevars, refvars>>

\* while True: count += 1; process_signal is entered
SynthBegin ==
    /\ loop_pc = "top"
    /\ count < MaxCount
    /\ count' = count + 1
    /\ iter_steps' = <<>>
    /\ loop_pc' = "synthesizing"
    /\ UNCHANGED <<is_running, interval, output_dir, stop_request, loop_exit>>
    /\ UNCHANGED <<iqvars, sigvars, cfgvars, singlevars, refvars>>

\* signal_data = processor.process_signal(duration=1.0) returns; if signal_data:
SynthEnd ==
    /\ loop_pc = "synthesizing"
    /\ \E g \in NoiseModels, ts \in Timestamps :
         LET r == process_signal(config, <<1, 1>>, g, ts)
         IN /\ duration' = <<1, 1>>
            /\ acq' = r.acq
            /\ pre' = r.pre
            /\ signal_obj' = r.ret
            /\ loop_pc' = IF PersistWanted(r.ret) THEN "persisting" ELSE "sleeping"
    /\ iter_steps' = Append(iter_steps, "synthesis")
    /\ UNCHANGED <<is_running, count, interval, output_dir, stop_request, loop_exit>>
    /\ UNCHANGED <<sig_pc, config, np_allow_pickle, fs, save_call, load_call, analyze_call>>
    /\ UNCHANGED <<iqvars, cfgvars, singlevars, refvars>>

\* processor.save_signal_data(signal_data, str(filepath)) returns, True or False
PersistEnd ==
    /\ loop_pc = "persisting"
    /\ LET r == save_signal_data(fs, signal_obj, LoopPath)
       IN /\ fs' = r.fs
          /\ save_call' = [tag |-> "save", path |-> LoopPath, ret |-> r.ret]
    /\ iter_steps' = Append(iter_steps, "persist")
    /\ loop_pc' = "sleeping"
    /\ UNCHANGED <<is_running, count, interval, output_dir, stop_request, loop_exit>>
    /\ UNCHANGED <<sig_pc, config, np_allow_pickle, duration, acq, pre, signal_obj,
                   load_call, analyze_call>>
    /\ UNCHANGED <<iqvars, cfgvars, singlevars, refvars>>

\* time.sleep(interval) returns, or raises ValueError for a negative interval,
\* which no except clause of the function catches
SleepEnd ==
    /\ loop_pc = "sleeping"
    /\ IF interval < 0
       THEN /\ loop_exit' = [from |-> "sleeping", cause |-> "ValueError"]
            /\ loop_pc' = "finally"
            /\ UNCHANGED iter_steps
       ELSE /\ iter_steps' = Append(iter_steps, "sleep")
            /\ loop_pc' = "top"
            /\ UNCHANGED loop_exit
    /\ UNCHANGED <<is_running, count, interval, output_dir, stop_request>>
    /\ UNCHANGED <<iqvars, sigvars, cfgvars, singlevars, refvars>>

\* the first request to stop is kept
Requested(kind) ==
    IF stop_request.kind = "none" THEN [kind |-> kind, at_count |-> count]
    ELSE stop_request

\* the user interrupts: KeyboardInterrupt is raised where the function is,
\* inside process_signal and save_signal_data too (their except Exception
\* does not catch it); a save that was writing may leave a partial file
Interrupt ==
    /\ loop_pc \in {"top", "synthesizing", "persisting", "sleeping"}
    /\ stop_request' = Requested("interrupt")
    /\ loop_exit' = [from |-> loop_pc, cause |-> "KeyboardInterrupt"]
    /\ loop_pc' = "finally"
    /\ \/ UNCHANGED fs
       \/ /\ loop_pc = "persisting"
          /\ ~Unwritable(LoopPath)
          /\ fs' = [fs EXCEPT ![LoopPath] = PartialFile]
    /\ UNCHANGED <<is_running, count, interval, output_dir, iter_steps>>
    /\ UNCHANGED <<sig_pc, config, np_allow_pickle, duration, acq, pre, signal_obj,
                   save_call, load_call, analyze_call>>
    /\ UNCHANGED <<iqvars, cfgvars, singlevars, refvars>>

\* another caller runs processor.stop_continuous_acquisition() while the loop
\* runs: the flag is cleared, and the loop never reads it
StopFlag ==
    /\ loop_pc \in {"top", "synthesizing", "persisting", "sleeping"}
    /\ is_running
    /\ is_running' = FALSE
    /\ stop_request' = Requested("flag")
    /\ UNCHANGED <<loop_pc, count, interval, output_dir, iter_steps, loop_exit>>
    /\ UNCHANGED <<iqvars, sigvars, cfgvars, singlevars, refvars>>

\* finally: processor.stop_continuous_acquisition()
Finally ==
    /\ loop_pc = "finally"
    /\ is_running' = FALSE
    /\ loop_pc' = "done"
    /\ UNCHANGED <<count, interval, output_dir, iter_steps, stop_request, loop_exit>>
    /\ UNCHANGED <<iqvars, sigvars, cfgvars, singlevars, refvars>>

LoopNext ==
    \/ LoopStart
    \/ SynthBegin
    \/ SynthEnd
    \/ PersistEnd
    \/ SleepEnd
    \/ Interrupt
    \/ StopFlag
    \/ Finally

SpecLoop == LoopInit /\ [][LoopNext]_vars

----------------------------------------------------------------------------
(* The single acquisition state machine: run_single_acquisition step by    *)
(* step, and a user who may interrupt it.                                  *)

SingleFiles ==
    {<<SingleStem(dir, ts), ".npz">> : dir \in OutputDirs, ts \in Timestamps}

SingleInit ==
    /\ IqQuiet
    /\ CfgQuiet
    /\ RefQuiet
    /\ sig_pc = "idle"
    /\ \E rate \in LoopSampleRates : config = DefaultConfig(rate)
    /\ np_allow_pickle = FALSE
    /\ fs = [p \in SingleFiles |-> NoFile]
    /\ duration \in Durations
    /\ acq = NoSignal
    /\ pre = NoPre
    /\ signal_obj = NoSignal
    /\ save_call = NoCall
    /\ load_call = NoCall
    /\ analyze_call = NoCall
    /\ loop_pc = "start"
    /\ is_running = FALSE
    /\ count = 0
    /\ interval = 5
    /\ output_dir \in OutputDirs
    /\ iter_steps = <<>>
    /\ stop_request = NoStop
    /\ loop_exit = NoExit
    /\ single_pc = "start"
    /\ analyze \in BOOLEAN
    /\ single_steps = <<>>
    /\ analysis_file = NoReport
    /\ single_exit = NoExit

\* filepath = output_dir / f"signal_{timestamp}.npz"
SinglePath == <<SingleStem(output_dir, signal_obj.timestamp), ".npz">>

\* run_single_acquisition(processor, output_dir, duration, analyze) is
\* called: process_signal is entered
SingleBegin ==
    /\ single_pc = "start"
    /\ single_pc' = "synthesizing"
    /\ UNCHANGED <<analyze, single_steps, analysis_file, single_exit>>
    /\ UNCHANGED <<iqvars, sigvars, cfgvars, loopvars, refvars>>

\* signal_data = processor.process_signal(duration) returns;
\* if signal_data is None: return
SingleSynthEnd ==
    /\ single_pc = "synthesizing"
    /\ \E g \in NoiseModels, ts \in Timestamps :
         LET r == process_signal(config, duration, g, ts)
         IN /\ acq' = r.acq
            /\ pre' = r.pre
            /\ signal_obj' = r.ret
            /\ IF r.ret.tag = "None"
               THEN /\ single_pc' = "done"
                    /\ single_exit' = [from |-> "synthesizing", cause |-> "return"]
               ELSE /\ single_pc' = "persisting"
                    /\ UNCHANGED single_exit
    /\ single_steps' = Append(single_steps, "synthesis")
    /\ UNCHANGED <<analyze, analysis_file>>
    /\ UNCHANGED <<sig_pc, config, np_allow_pickle, fs, duration, save_call, load_call,
                   analyze_call>>
    /\ UNCHANGED <<iqvars, cfgvars, loopvars, refvars>>

\* processor.save_signal_data(signal_data, str(filepath)) returns: on False
\* the function returns; on True it goes on, to the analysis `if analyze:`
SinglePersistEnd ==
    /\ single_pc = "persisting"
    /\ LET r == save_signal_data(fs, signal_obj, SinglePath)
       IN /\ fs' = r.fs
          /\ save_call' = [tag |-> "save", path |-> SinglePath, ret |-> r.ret]
          /\ IF ~r.ret
             THEN /\ single_pc' = "done"
                  /\ single_exit' = [from |-> "persisting", cause |-> "return"]
             ELSE IF analyze
             THEN /\ single_pc' = "analyzing"
                  /\ UNCHANGED single_exit
             ELSE /\ single_pc' = "done"
                  /\ single_exit' = [from |-> "end", cause |-> "return"]
    /\ single_steps' = Append(single_steps, "persist")
    /\ UNCHANGED <<analyze, analysis_file>>
    /\ UNCHANGED <<sig_pc, config, np_allow_pickle, duration, acq, pre, signal_obj,
                   load_call, analyze_call>>
    /\ UNCHANGED <<iqvars, cfgvars, loopvars, refvars>>

\* analysis_result = processor.analyze_signal(signal_data) returns;
\* if analysis_result:
SingleAnalyzeEnd ==
    /\ single_pc = "analyzing"
    /\ LET analysis_result == analyze_signal(signal_obj)
       IN /\ analyze_call' = [tag |-> "analyze", arg |-> signal_obj,
                              ret |-> analysis_result]
          /\ IF ReportWanted(analysis_result)
             THEN /\ single_pc' = "reporting"
                  /\ UNCHANGED single_exit
             ELSE /\ single_pc' = "done"
                  /\ single_exit' = [from |-> "end", cause |-> "return"]
    /\ single_steps' = Append(single_steps, "analysis")
    /\ UNCHANGED <<analyze, analysis_file>>
    /\ UNCHANGED <<sig_pc, config, np_allow_pickle, fs, duration, acq, pre, signal_obj,
                   save_call, load_call>>
    /\ UNCHANGED <<iqvars, cfgvars, loopvars, refvars>>

\* with open(analysis_file, 'w', encoding='utf-8') as f: the lines are
\* written; open raises OSError in a directory that cannot be written
SingleReportEnd ==
    /\ single_pc = "reporting"
    /\ IF AnalysisStem(output_dir, signal_obj.timestamp) \in ReadOnlyStems
       THEN /\ single_exit' = [from |-> "reporting", cause |-> "OSError"]
            /\ UNCHANGED <<analysis_file, single_steps>>
       ELSE /\ analysis_file' = Report(signal_obj.timestamp, signal_obj,
                                       analyze_call.ret)
            /\ single_steps' = Append(single_steps, "report")
            /\ single_exit' = [from |-> "end", cause |-> "return"]
    /\ single_pc' = "done"
    /\ UNCHANGED analyze
    /\ UNCHANGED <<iqvars, sigvars, cfgvars, loopvars, refvars>>

\* the user interrupts: KeyboardInterrupt is raised where the function is
\* and leaves it; a save or a report that was writing may leave a partial
\* file
SingleInterrupt ==
    /\ single_pc \in {"synthesizing", "persisting", "analyzing", "reporting"}
    /\ single_exit' = [from |-> single_pc, cause |-> "KeyboardInterrupt"]
    /\ single_pc' = "done"
    /\ \/ UNCHANGED <<fs, analysis_file>>
       \/ /\ single_pc = "persisting"
          /\ ~Unwritable(SinglePath)
          /\ fs' = [fs EXCEPT ![SinglePath] = PartialFile]
          /\ UNCHANGED analysis_file
       \/ /\ single_pc = "reporting"
          /\ AnalysisStem(output_dir, signal_obj.timestamp) \notin ReadOnlyStems
          /\ analysis_file' = PartialReport
          /\ UNCHANGED fs
    /\ UNCHANGED <<analyze, single_steps>>
    /\ UNCHANGED <<sig_pc, config, np_allow_pickle, duration, acq, pre, signal_obj,
                   save_call, load_call, analyze_call>>
    /\ UNCHANGED <<iqvars, cfgvars, loopvars, refvars>>

SingleNext ==
    \/ SingleBegin
    \/ SingleSynthEnd
    \/ SinglePersistEnd
    \/ SingleAnalyzeEnd
    \/ SingleReportEnd
    \/ SingleInterrupt

SpecSingle == SingleInit /\ [][SingleNext]_vars

----------------------------------------------------------------------------
(* The configuration objects state machine: a handler, a caller that is    *)
(* handed mappings by load_config and get_config and assigns to the one it *)
(* was handed last, and a SignalProcessor constructed on the handler.      *)

\* the assignments returned[key] = value a caller makes
CallerAssignments ==
    {[key |-> "sample_rate", value |-> Num(-1)],
     [key |-> "mode", value |-> Str("fm")]}

\* the config_dict arguments of save_config: the handler's own mapping and
\* the mapping of test_save_and_load_config
RefSaveDicts == {Absent, Given(TestConfig)}

\* the keyword arguments of update_config: a key every mapping has and one
\* only a caller's assignment adds
RefUpdateKwargs == {[gain |-> Str("manual")], [mode |-> Str("fm")]}

RefInit ==
    /\ IqQuiet
    /\ SigQuiet
    /\ LoopQuiet
    /\ SingleQuiet
    /\ RefQuiet
    /\ handler_config = Copy(DEFAULT_RADIO_CONFIG)
    /\ \E content \in ForeignConfigFiles :
         config_fs = [f \in ConfigFiles |-> IF f = DefaultConfigFile THEN content
                                            ELSE NoConfigFile]
    /\ config_call = NoCall

\* handler.save_config(config_dict, file_path): the mapping is written, no
\* reference to it is kept
RefSaveConfig ==
    /\ \E config_dict \in RefSaveDicts, file_path \in ConfigPaths :
         LET r == save_config(Target(dict_objects, refs, "self.config"), config_fs,
                              DefaultConfigFile, config_dict, file_path)
         IN config_fs' = r.fs
    /\ mutation' = NoMutation
    /\ UNCHANGED <<handler_config, config_call, dict_objects, refs>>
    /\ UNCHANGED <<iqvars, sigvars, loopvars, singlevars>>

\* returned = handler.load_config(file_path): json.load makes a new dict;
\* `self.config = config` and `return config` bind the attribute and the
\* caller's name to that one object; a fall-back returns a new copy of the
\* default and leaves the attribute alone
RefLoadConfig ==
    /\ \E file_path \in ConfigPaths :
         LET r == load_config(Target(dict_objects, refs, "self.config"), config_fs,
                              DefaultConfigFile, file_path)
             id == NewId(refs)
             shared == [refs EXCEPT !["self.config"] = id, !["returned"] = id]
             b == BindNew(dict_objects, refs, "returned", r.ret)
         IN /\ IF r.same_object
               THEN /\ refs' = shared
                    /\ dict_objects' =
                          Collect([dict_objects EXCEPT ![id] = r.ret], shared)
               ELSE /\ refs' = b.refs
                    /\ dict_objects' = b.objects
            /\ handler_config' = r.config
    /\ mutation' = NoMutation
    /\ UNCHANGED <<config_fs, config_call>>
    /\ UNCHANGED <<iqvars, sigvars, loopvars, singlevars>>

\* handler.update_config(**kwargs): `self.config[key] = value` changes the
\* object the attribute refers to, in place
RefUpdateConfig ==
    /\ \E kwargs \in RefUpdateKwargs :
         LET r == update_config(Target(dict_objects, refs, "self.config"), kwargs)
         IN /\ dict_objects' = [dict_objects EXCEPT ![refs["self.config"]] = r.config]
            /\ handler_config' = r.config
    /\ mutation' = NoMutation
    /\ UNCHANGED <<config_fs, config_call, refs>>
    /\ UNCHANGED <<iqvars, sigvars, loopvars, singlevars>>

\* returned = handler.get_config(): a new dict, `self.config.copy()`
RefGetConfig ==
    /\ LET b == BindNew(dict_objects, refs, "returned",
                        get_config(Target(dict_objects, refs, "self.config")))
       IN /\ refs' = b.refs
          /\ dict_objects' = b.objects
    /\ mutation' = NoMutation
    /\ UNCHANGED <<handler_config, config_fs, config_call>>
    /\ UNCHANGED <<iqvars, sigvars, loopvars, singlevars>>

\* processor = SignalProcessor(handler):
\* `self.config = config_handler.get_config()`
NewSignalProcessor ==
    /\ LET b == BindNew(dict_objects, refs, "processor.config",
                        get_config(Target(dict_objects, refs, "self.config")))
       IN /\ refs' = b.refs
          /\ dict_objects' = b.objects
    /\ mutation' = NoMutation
    /\ UNCHANGED <<handler_config, config_fs, config_call>>
    /\ UNCHANGED <<iqvars, sigvars, loopvars, singlevars>>

\* what a name's object holds, if the name refers to one
Held(name) ==
    IF refs[name] = NoRef THEN NoObject ELSE Target(dict_objects, refs, name)

\* the caller assigns returned[key] = value: the object changes, for every
\* name that refers to it
AssignReturned ==
    /\ refs["returned"] # NoRef
    /\ \E a \in CallerAssignments :
         /\ dict_objects' =
               [dict_objects EXCEPT ![refs["returned"]] = SetItem(@, a.key, a.value)]
         /\ mutation' = [tag |-> "assigned", key |-> a.key, value |-> a.value,
                         get_config_before |->
                             get_config(Target(dict_objects, refs, "self.config")),
                         default_before |-> Held("DEFAULT_RADIO_CONFIG"),
                         processor_before |-> Held("processor.config")]
    /\ handler_config' = Target(dict_objects', refs, "self.config")
    /\ UNCHANGED <<config_fs, config_call, refs>>
    /\ UNCHANGED <<iqvars, sigvars, loopvars, singlevars>>

RefNext ==
    \/ RefSaveConfig
    \/ RefLoadConfig
    \/ RefUpdateConfig
    \/ RefGetConfig
    \/ NewSignalProcessor
    \/ AssignReturned

SpecRef == RefInit /\ [][RefNext]_vars

----------------------------------------------------------------------------
(* Claims about the IQ table operations, under SpecIq *)

\* the table the caller built, as create_iq_array returned it, or the one
\* the caller had
InputTable == IF iq_pc = "passed" THEN PassedTable
              ELSE create_iq_array(iq_data_list, sample_rate)

\* column c of the first m rows of table a
ColumnOf(a, m, c) == [k \in 1..m |-> a.rows[k][c]]

\* the array main() calls iq_array_filtered
MainFiltered == heap[main_result.iq_array_filtered]

\* the I column main() left in iq_array_filtered
MainFilteredI == ColumnOf(MainFiltered, MainFiltered.shape[1], 1)

\* C4 as stated: the filtered I column is as long as the input I column and
\* none of its values exceeds the threshold, the mean of the input I column.
C4_FilteredAtMostThreshold ==
    /\ sp_result.tag = "ok" =>
         LET out == sp_result.filtered_i
             thr == sp_result.i_mean
         IN /\ Len(out) = sp_result.original_i.rows
            /\ \A k \in 1..Len(out) : out[k] * thr.den <= thr.num
    /\ main_result.tag = "ok" =>
         LET out == MainFilteredI
             thr == main_result.i_mean
         IN /\ Len(out) = heap["iq_array"].shape[1]
            /\ \A k \in 1..Len(out) : out[k] * thr.den <= thr.num

\* C4 amended: the filtered I column is as long as the input I column and
\* each of its values is 0 or does not exceed the threshold.
C4_FilteredZeroOrAtMostThreshold ==
    /\ sp_result.tag = "ok" =>
         LET out == sp_result.filtered_i
             thr == sp_result.i_mean
         IN /\ Len(out) = sp_result.original_i.rows
            /\ \A k \in 1..Len(out) : out[k] = 0 \/ out[k] * thr.den <= thr.num
    /\ main_result.tag = "ok" =>
         LET out == MainFilteredI
             thr == main_result.i_mean
         IN /\ Len(out) = heap["iq_array"].shape[1]
            /\ \A k \in 1..Len(out) : out[k] = 0 \/ out[k] * thr.den <= thr.num

\* C4 witness: process_iq_data returned for a table whose mean is negative
\* and one of whose I values was above it and is now 0.
C4_Witness ==
    /\ sp_result.tag = "ok"
    /\ sp_result.i_mean.num < 0
    /\ \E k \in 1..Len(sp_result.filtered_i) :
         /\ Deref(sp_result.original_i, heap)[k] # 0
         /\ sp_result.filtered_i[k] = 0

\* C5: the filtered I column holds 0 where the input I value is strictly
\* above the threshold and the input value elsewhere; the Q column and the
\* row count are those of the input, and the input array, which original_i
\* shows, is as the caller built it.
C5_FilterDefinitionAndPurity ==
    /\ sp_result.tag = "ok" =>
         LET m == sp_result.original_i.rows
             thr == sp_result.i_mean
             icol == ColumnOf(InputTable, m, 1)
         IN /\ heap["iq_array"] = InputTable
            /\ Deref(sp_result.original_i, heap) = icol
            /\ Deref(sp_result.q_components, heap) = ColumnOf(InputTable, m, 2)
            /\ Len(sp_result.filtered_i) = m
            /\ \A k \in 1..m :
                 sp_result.filtered_i[k] =
                     IF icol[k] * thr.den > thr.num THEN 0 ELSE icol[k]
    /\ tk_result.tag = "ok" =>
         LET m == tk_result.original_i.rows
             thr == tk_result.i_mean
             icol == ColumnOf(InputTable, m, 1)
         IN /\ heap["iq_array"] = InputTable
            /\ Deref(tk_result.original_i, heap) = icol
            /\ Deref(tk_result.q_components, heap) = ColumnOf(InputTable, m, 2)
            /\ Len(tk_result.filtered_i) = m
            /\ \A k \in 1..m :
                 tk_result.filtered_i[k] =
                     IF icol[k] * thr.den > thr.num THEN 0 ELSE icol[k]
    /\ main_result.tag = "ok" =>
         LET input == NpArray(iq_data_list.val)
             m == input.shape[1]
             thr == main_result.i_mean
             icol == ColumnOf(input, m, 1)
             out == MainFiltered
         IN /\ heap["iq_array"] = input
            /\ out.shape = input.shape
            /\ ColumnOf(out, m, 2) = ColumnOf(input, m, 2)
            /\ \A k \in 1..m :
                 out.rows[k][1] = IF icol[k] * thr.den > thr.num THEN 0 ELSE icol[k]

\* C5 witness: main() filtered a table and changed one of its I values.
C5_Witness ==
    /\ main_result.tag = "ok"
    /\ main_result.count_filtered > 0
    /\ MainFiltered # heap["iq_array"]

\* the caller passed a non-empty list of pairs and a sample rate
C6_Case ==
    /\ iq_pc = "created"
    /\ iq_data_list.given
    /\ Len(iq_data_list.val) > 0
    /\ sample_rate.given

\* C6 as stated: the table has n + 1 rows, the first n are the pairs, the
\* last is [sample_rate, 0], and process_iq_data takes its I and Q components
\* from exactly the n pairs.
C6_ConstructSplitRoundTrip ==
    C6_Case =>
      LET n == Len(iq_data_list.val)
          a == heap["iq_array"]
      IN /\ a.shape = <<n + 1, 2>>
         /\ \A k \in 1..n : a.rows[k] = iq_data_list.val[k]
         /\ a.rows[n + 1] = <<sample_rate.val, 0>>
         /\ sp_result.tag = "ok" =>
              /\ Deref(sp_result.original_i, heap) = [k \in 1..n |-> iq_data_list.val[k][1]]
              /\ Deref(sp_result.q_components, heap) = [k \in 1..n |-> iq_data_list.val[k][2]]

\* the pairs as float32 holds them
Float32Pairs ==
    [k \in 1..Len(iq_data_list.val) |->
       <<ToFloat32(iq_data_list.val[k][1]), ToFloat32(iq_data_list.val[k][2])>>]

\* C6 amended: the table has n + 1 rows, the first n are the pairs converted
\* to float32, the last is [float32(sample_rate), 0], and process_iq_data
\* takes its I and Q components from exactly those n rows.
C6_ConstructSplitRoundTripFloat32 ==
    C6_Case =>
      LET n == Len(iq_data_list.val)
          a == heap["iq_array"]
      IN /\ a.shape = <<n + 1, 2>>
         /\ \A k \in 1..n : a.rows[k] = Float32Pairs[k]
         /\ a.rows[n + 1] = <<ToFloat32(sample_rate.val), 0>>
         /\ sp_result.tag = "ok" =>
              /\ Deref(sp_result.original_i, heap) = [k \in 1..n |-> Float32Pairs[k][1]]
              /\ Deref(sp_result.q_components, heap) = [k \in 1..n |-> Float32Pairs[k][2]]

\* C6 witness: a table of three pairs and the rate 2400000 was built and
\* processed.
C6_Witness ==
    /\ C6_Case
    /\ Len(iq_data_list.val) = MaxRows
    /\ sample_rate.val = DefaultSampleRate
    /\ sp_result.tag = "ok"
    /\ sp_result.original_i.rows = MaxRows

\* C7 as stated: both implementations leave the last row out exactly when
\* the table has more than one row and the Q value of its last row is 0, so
\* they return the same I and Q components.
C7_SplitAnnotationAgrees ==
    (sp_result.tag = "ok" /\ tk_result.tag = "ok") =>
      LET a == heap["iq_array"]
          n == a.shape[1]
          annotated == n > 1 /\ a.rows[n][2] = 0
      IN /\ sp_result.original_i.rows = (IF annotated THEN n - 1 ELSE n)
         /\ tk_result.original_i.rows = (IF annotated THEN n - 1 ELSE n)
         /\ Deref(sp_result.original_i, heap) = Deref(tk_result.original_i, heap)
         /\ Deref(sp_result.q_components, heap) = Deref(tk_result.q_components, heap)

----------------------------------------------------------------------------
(* Claims about the signal pipeline, under SpecSig *)

\* process_signal has returned
Processed == signal_obj.tag # "none"

\* load_signal_data has returned
Loaded == load_call.tag = "load"

\* C1 as stated: after save_signal_data(record, path) returned True,
\* load_signal_data(path) on the same path returns a record whose data,
\* sample_rate, center_freq, timestamp and metadata are those saved.
C1_SaveLoadRoundTrip ==
    (Loaded /\ save_call.tag = "save" /\ save_call.ret
       /\ load_call.path = save_call.path) =>
      /\ load_call.ret.tag = "ok"
      /\ load_call.ret.data = signal_obj.data
      /\ load_call.ret.sample_rate = signal_obj.sample_rate
      /\ load_call.ret.center_freq = signal_obj.center_freq
      /\ load_call.ret.timestamp = signal_obj.timestamp
      /\ load_call.ret.metadata = signal_obj.metadata

\* C2 as stated: a record process_signal returns has at least one sample,
\* and a computed sample count of 0 or less makes it return None.
C2_RecordNeverEmpty ==
    Processed =>
      /\ signal_obj.tag = "ok" => Len(signal_obj.data.vals) > 0
      /\ NumSamples(config.sample_rate, duration) <= 0 => signal_obj.tag = "None"

\* C3 as stated: when the acquisition or the preprocessing fails,
\* process_signal returns None; a record it returns holds the buffer the
\* preprocessing completed on.
C3_FailedStepGivesNone ==
    Processed =>
      /\ (acq.tag = "None" \/ pre.raised) => signal_obj.tag = "None"
      /\ signal_obj.tag = "ok" => (~pre.raised /\ signal_obj.data = pre.result)

NormalizedMax2(signal) == [num |-> MaxMag2(signal), den |-> signal.m2]

\* C9 as stated: a buffer whose largest magnitude is 0 passes the
\* normalization unchanged; any other buffer is divided by its largest
\* magnitude, so that the largest magnitude becomes 1.
C9_NormalizationZeroGuard ==
    (acq.tag = "ok" /\ Len(acq.signal.vals) > 0) =>
      IF MaxMag2(acq.signal) = 0
      THEN pre.signal_normalized = acq.signal
      ELSE /\ ~pre.signal_normalized.nan
           /\ pre.signal_normalized.vals = acq.signal.vals
           /\ NormalizedMax2(pre.signal_normalized).num
                = NormalizedMax2(pre.signal_normalized).den

\* an entry that is not what save_signal_data writes under that name
Malformed(e, kind) == e.kind # kind

\* the container holds all five entries, each of its kind
WellFormed(c) ==
    /\ ~Malformed(c.data, "ndarray")
    /\ ~Malformed(c.sample_rate, "float")
    /\ ~Malformed(c.center_freq, "float")
    /\ ~Malformed(c.timestamp, "float")
    /\ ~Malformed(c.metadata, "object")

LoadMustFail(c, allow_pickle) ==
    \/ c.tag = "absent"
    \/ /\ c.tag = "npz"
       /\ \/ c.data.kind = "missing"
          \/ c.sample_rate.kind # "float"
          \/ c.center_freq.kind # "float"
          \/ c.timestamp.kind # "float"
          \/ c.metadata.kind = "vector"
          \/ (~allow_pickle /\ (c.data.kind = "object" \/ c.metadata.kind = "object"))

----------------------------------------------------------------------------
(* Claims about analyze_signal, under SpecSig *)

AnalysisKeys == {"power", "amplitude", "main_frequency", "snr_estimate",
                 "spectrum_peak", "data_length"}

Analyzed == analyze_call.tag = "analyze"

\* C11: analyze_signal never raises: it returns {} or a dict of exactly the
\* six keys; for a record with no samples it returns {}; every result other
\* than {} was computed from a record, has the six keys and its data_length
\* is the number of samples of that record.
C11_AnalysisFailureDistinguishable ==
    Analyzed =>
      LET a == analyze_call.arg
          r == analyze_call.ret
      IN /\ (DOMAIN r = DOMAIN EmptyDict \/ DOMAIN r = AnalysisKeys)
         /\ (a.tag = "ok" /\ Len(a.data.vals) = 0 => DOMAIN r = DOMAIN EmptyDict)
         /\ (a.tag # "ok" => DOMAIN r = DOMAIN EmptyDict)
         /\ (DOMAIN r = AnalysisKeys =>
               /\ a.tag = "ok"
               /\ r.data_length = Len(a.data.vals)
               /\ r.data_length > 0)

\* a record with no samples was analysed and {} came back
C11_Witness ==
    /\ Analyzed
    /\ analyze_call.arg.tag = "ok"
    /\ Len(analyze_call.arg.data.vals) = 0
    /\ analyze_call.ret = EmptyDict

----------------------------------------------------------------------------
(* Claims about malformed and empty tables, under SpecIq *)

\* a create_iq_array call has returned or raised
CreateReturned == iq_pc \in {"created", "raised"}

\* the list passed has a row that is not a pair
HasMalformedRow ==
    /\ iq_data_list.given
    /\ \E k \in 1..Len(iq_data_list.val) : Len(iq_data_list.val[k]) # 2

\* table a is 2-dimensional with exactly 2 columns
IsIqShape(a) == Len(a.shape) = 2 /\ a.shape[2] = 2

\* C12 as stated: create_iq_array raises and returns no table whenever a row
\* of the list is not a pair, with or without a sample rate, and every table
\* it returns is 2-dimensional with exactly 2 columns.
C12_ConstructRejectsMalformedRows ==
    CreateReturned =>
      /\ (HasMalformedRow => iq_pc = "raised" /\ heap["iq_array"] = NoArray)
      /\ (iq_pc = "created" => IsIqShape(heap["iq_array"]))

\* C13 as stated: process_iq_data raises at its shape check, before anything
\* is sliced or computed, for every table that is not (n, 2), and does not
\* raise there for a table that is (n, 2); in both implementations.
C13_ShapeValidation ==
    LET a == heap["iq_array"]
        rejected(r) == r.tag \notin {"ok", "none"} /\ r.at = "shape check"
    IN /\ sp_result.tag # "none" => (rejected(sp_result) <=> ~IsIqShape(a))
       /\ tk_result.tag # "none" => (rejected(tk_result) <=> ~IsIqShape(a))

\* C14 as stated: first_200_samples shows the first min(200, len(data)) rows
\* of data, the rows left after the annotation split, in their order.
C14_SliceOfData ==
    sp_result.tag = "ok" =>
      LET m == sp_result.original_i.rows
          first == sp_result.first_200_samples
      IN /\ first.rows = Min2(FirstN, m)
         /\ Deref(first, heap) = [k \in 1..Min2(FirstN, m) |-> heap["iq_array"].rows[k]]

\* C15 as stated: on a table of shape (0, 2) process_iq_data raises and
\* returns no mean, deviation or filter result; in both implementations.
C15_EmptyInputRejected ==
    heap["iq_array"].shape = <<0, 2>> =>
      /\ sp_result.tag # "ok"
      /\ tk_result.tag # "ok"

----------------------------------------------------------------------------
(* Claims about the configuration handler, under SpecCfg *)

\* a positive number
IsPositiveNumber(v) == v.kind = "number" /\ v.num > 0

\* the mapping has the required keys and positive center_freq and sample_rate
IsValidConfig(c) ==
    /\ required_keys \subseteq DOMAIN c
    /\ IsPositiveNumber(c.center_freq)
    /\ IsPositiveNumber(c.sample_rate)

\* Python's == on two mappings that share no value object: nan equals nothing
PyEq(a, b) ==
    /\ DOMAIN a = DOMAIN b
    /\ \A k \in DOMAIN a : a[k].kind # "nan" /\ a[k] = b[k]

\* C16 as stated: save_config called with a mapping that lacks a required
\* key, or whose center_freq or sample_rate is not a positive number, returns
\* False and leaves the files and the handler's mapping as they were.
C16_SaveRejectsInvalid ==
    (/\ config_call.tag = "save"
     /\ config_call.config_dict.given
     /\ ~IsValidConfig(config_call.config_dict.val)) =>
      /\ config_call.ret = FALSE
      /\ config_fs = config_call.fs_before
      /\ handler_config = config_call.config_before

\* load_config was called right after a save_config(c) that returned True
\* for a valid mapping c, with the same file_path
C17_Case ==
    /\ config_call.tag = "load"
    /\ config_call.prev.tag = "save"
    /\ config_call.prev.ret
    /\ config_call.prev.config_dict.given
    /\ IsValidConfig(config_call.prev.config_dict.val)
    /\ config_call.prev.file_path = config_call.file_path

\* C17 as stated: in that case load_config returned a mapping equal to c and
\* get_config() equals c.
C17_ConfigRoundTrip ==
    C17_Case =>
      LET c == config_call.prev.config_dict.val
      IN /\ PyEq(config_call.ret, c)
         /\ PyEq(get_config(handler_config), c)

\* every value of the mapping is one JSON has: a number, a string or a list
JsonNative(c) == \A k \in DOMAIN c : c[k].kind \in {"number", "str", "list"}

\* C17 amended: in that case, when every value of c is one JSON has,
\* load_config returned a mapping equal to c and get_config() equals c; in
\* every case they equal c with its tuples turned into lists.
C17_ConfigRoundTripJson ==
    C17_Case =>
      LET c == config_call.prev.config_dict.val
      IN /\ JsonNative(c) => /\ PyEq(config_call.ret, c)
                             /\ PyEq(get_config(handler_config), c)
         /\ PyEq(config_call.ret, JsonDump(c))
         /\ PyEq(get_config(handler_config), JsonDump(c))

\* C17 witness: the mapping of test_save_and_load_config was saved and loaded
\* back.
C17_Witness ==
    /\ C17_Case
    /\ config_call.prev.config_dict.val = TestConfig
    /\ config_call.ret = TestConfig
    /\ handler_config = TestConfig

\* C18 as stated: get_config() always has the required keys and positive
\* center_freq and sample_rate.
C18_ConfigAlwaysValid == IsValidConfig(get_config(handler_config))

----------------------------------------------------------------------------
(* Claims about run_continuous_acquisition, under SpecLoop *)

\* C19 as stated: a request to stop, by the flag or by an interrupt, ends the
\* loop only at an iteration boundary, never inside a synthesis or a persist
\* or the sleep, and after a request no further iteration is begun.
C19_CooperativeCancellation ==
    /\ (loop_exit.cause = "KeyboardInterrupt" => loop_exit.from = "top")
    /\ (stop_request.kind # "none" => count = stop_request.at_count)

\* the steps of a whole iteration, given what its synthesis returned
ExpectedSteps ==
    IF signal_obj.tag = "ok" THEN <<"synthesis", "persist", "sleep">>
    ELSE <<"synthesis", "sleep">>

IsPrefix(s, t) == Len(s) <= Len(t) /\ \A k \in 1..Len(s) : s[k] = t[k]

\* the order of the steps, in every state: the steps done are the first of
\* the expected ones, a persist is entered only with a record, the loop is
\* left only by an interrupt or by time.sleep raising, never by a synthesis
\* or a persist that failed, and once it is left is_running is False
LoopOrder ==
    /\ IsPrefix(iter_steps, ExpectedSteps)
    /\ (loop_pc = "persisting" => signal_obj.tag = "ok")
    /\ (loop_pc \in {"finally", "done"} =>
          \/ loop_exit.cause = "KeyboardInterrupt"
          \/ loop_exit.cause = "ValueError" /\ loop_exit.from = "sleeping")
    /\ (loop_pc = "done" => ~is_running)

----------------------------------------------------------------------------
(* Claims about run_single_acquisition, under SpecSingle *)

\* the steps of a single acquisition, in order
SingleOrder == <<"synthesis", "persist", "analysis", "report">>

\* step was completed
SingleDid(step) == \E k \in 1..Len(single_steps) : single_steps[k] = step

\* no file of the output directory exists, whole or partial
NothingPersisted ==
    /\ \A p \in DOMAIN fs : fs[p] = NoFile
    /\ analysis_file = NoReport

\* C21: in run_single_acquisition the steps occur in the order synthesize,
\* persist, analyze (then the report): the steps completed are a prefix of
\* that order.  Nothing is persisted before synthesis has returned, and
\* nothing at all when it returned None.  analyze_signal is run only if
\* save_signal_data returned True and analyze was requested.  The report
\* file analysis_{timestamp}.txt is written, wholly or in part, only when
\* analyze_signal returned a non-empty dict.
C21_SingleAcquisitionOrder ==
    /\ IsPrefix(single_steps, SingleOrder)
    /\ ~SingleDid("synthesis") => NothingPersisted
    /\ (SingleDid("synthesis") /\ signal_obj.tag = "None") =>
          /\ NothingPersisted
          /\ single_pc = "done"
          /\ single_steps = <<"synthesis">>
    /\ (single_pc = "analyzing" \/ SingleDid("analysis")) =>
          /\ analyze
          /\ save_call.tag = "save" /\ save_call.ret
          /\ fs[NpzName(save_call.path)] # NoFile
    /\ SingleDid("analysis") => analyze_call.arg = signal_obj
    /\ (single_pc = "reporting" \/ analysis_file # NoReport) =>
          /\ SingleDid("analysis")
          /\ DOMAIN analyze_call.ret = AnalysisKeys
    /\ SingleDid("report") <=> analysis_file.tag = "report"
    /\ analysis_file.tag = "report" => analysis_file.lines = analyze_call.ret

\* a run in which all four steps happened: the buffer was synthesized and
\* saved, the analysis gave a result and the report holds it
C21_Witness ==
    /\ single_pc = "done"
    /\ single_steps = SingleOrder
    /\ analysis_file.tag = "report"
    /\ fs[SinglePath].tag = "npz"

----------------------------------------------------------------------------
(* Claims about the configuration mappings as objects, under SpecRef *)

\* the mapping the caller was handed is an object of its own
ReturnedIsOwnObject ==
    refs["returned"] # NoRef =>
        \A n \in RefNames \ {"returned"} : refs[n] # refs["returned"]

\* the last assignment through a returned mapping changed nothing for the
\* others: get_config gives what it gave, the default and the processor's
\* snapshot hold what they held
AssignmentWasPrivate ==
    mutation.tag = "assigned" =>
        /\ get_config(Held("self.config")) = mutation.get_config_before
        /\ Held("DEFAULT_RADIO_CONFIG") = mutation.default_before
        /\ Held("processor.config") = mutation.processor_before

\* C22: every mapping the handler hands to a caller, from get_config or
\* load_config, on success or on fall-back, is an object that neither the
\* handler nor DEFAULT_RADIO_CONFIG nor a SignalProcessor refers to, so an
\* assignment through it changes neither what get_config returns, nor
\* DEFAULT_RADIO_CONFIG, nor the snapshot of a processor already made.
C22_NoSharedConfig ==
    /\ ReturnedIsOwnObject
    /\ AssignmentWasPrivate
    /\ Held("DEFAULT_RADIO_CONFIG") = DEFAULT_RADIO_CONFIG

====
